---- MODULE Spec2Model ----
(***************************************************************************)
(* Model of the long-guide retrieval path of the Steam MCP server:         *)
(* fetch_steam_guide in src/src/steam_mcp_server/server.py, together with  *)
(* the module-level state it uses (faiss, _embedding_model).               *)
(*                                                                         *)
(* Text is kept run-length encoded: a string is a sequence of runs         *)
(* <<lit, n>>, the literal lit repeated n times, adjacent runs of the same *)
(* literal merged.  Guide text is made of one-character runs, so that the  *)
(* real 20000 character threshold is used without 20000-element values.    *)
(***************************************************************************)
EXTENDS Integers, Sequences, FiniteSets, TLC

(* ------------------------------ bounds --------------------------------- *)

\* longest guide (number of subSection boxes) the web may serve
MaxSections == 6

\* number of handler slots that may run fetch_steam_guide at the same time
NumCalls == 2

(* ------------------------- program constants --------------------------- *)

threshold_chars == 20000

top_k == 5

(* ------------------------------ strings -------------------------------- *)

EmptyStr == <<>>

Lit(s) == IF s = "" THEN <<>> ELSE << <<s, 1>> >>

Rep(ch, n) == IF n = 0 THEN <<>> ELSE << <<ch, n>> >>

\* the runs of s followed by the runs of t, the runs that meet merged when
\* they repeat the same literal
ConcatRuns(s, t) ==
    IF s = <<>> THEN t
    ELSE IF t = <<>> THEN s
    ELSE IF s[Len(s)][1] = t[1][1]
         THEN SubSeq(s, 1, Len(s) - 1)
                \o << <<t[1][1], s[Len(s)][2] + t[1][2]>> >>
                \o SubSeq(t, 2, Len(t))
         ELSE s \o t

\* s + t (each operand is evaluated once, then joined)
Concat(s, t) == CHOOSE r \in {ConcatRuns(a, b) : a \in {s}, b \in {t}} : TRUE

RECURSIVE StrLenFrom(_, _)
StrLenFrom(s, i) ==
    IF i > Len(s) THEN 0 ELSE Len(s[i][1]) * s[i][2] + StrLenFrom(s, i + 1)

\* len(s)
StrLen(s) == StrLenFrom(s, 1)

RECURSIVE JoinFrom(_, _, _)
JoinFrom(sep, parts, i) ==
    IF i > Len(parts) THEN <<>>
    ELSE IF i = Len(parts) THEN parts[i]
    ELSE Concat(Concat(parts[i], sep), JoinFrom(sep, parts, i + 1))

\* sep.join(parts)
Join(sep, parts) == JoinFrom(sep, parts, 1)

(* --------------------------- guide pages ------------------------------- *)

\* a missing title or body element (box.find(...) returned None)
NoElement == << <<"None", 0>> >>

\* the subSection boxes the web serves: title and body are the texts
\* get_text extracts from the element, or NoElement
BoxTitled == [title |-> Lit("T"), body |-> Rep("a", 9997)]
BoxHuge   == [title |-> NoElement, body |-> Rep("a", 20001)]
BoxBare   == [title |-> Lit("U"), body |-> NoElement]

\* the boxes long guides are made of
Boxes == {BoxTitled, BoxHuge}

RECURSIVE SeqsUpTo(_, _)
SeqsUpTo(S, n) ==
    IF n = 0 THEN {<<>>}
    ELSE LET shorter == SeqsUpTo(S, n - 1)
         IN  shorter \cup {Append(s, x) : s \in {t \in shorter : Len(t) = n - 1}, x \in S}

\* a fetched page: whether it holds the "guide subSections" container, and
\* the boxes inside it
Page(hasContainer, boxes) ==
    [fetched |-> TRUE, container |-> hasContainer, boxes |-> boxes]

\* no response yet
NoPage == [fetched |-> FALSE, container |-> FALSE, boxes |-> <<>>]

\* the pages holding up to n boxes, and the page without a container
Pages(n) == {Page(FALSE, <<>>)} \cup {Page(TRUE, b) : b \in SeqsUpTo(Boxes, n)}

GuideIds == {"42"}

Queries == {Lit("boss strategy"), EmptyStr}

\* lines 267-268: the text of one box
SectionText(box) ==
    Concat(IF box.title # NoElement THEN Concat(box.title, Lit("\n")) ELSE EmptyStr,
           IF box.body # NoElement THEN box.body ELSE EmptyStr)

\* lines 260-269: the sections of a container, in document order
ExtractSections(boxes) == [i \in 1..Len(boxes) |-> SectionText(boxes[i])]

\* line 271
FullText(secs) == Join(Rep("\n", 2), secs)

(* ---------------------- embedding and index --------------------------- *)

\* the size check with the boundary on the wrong side (< for <=)
SearchModeStrict(text) == ~(StrLen(text) < threshold_chars)

\* threshold_chars < len(full_text): the guide is searched, not returned whole
SearchMode(text) == ~(StrLen(text) <= threshold_chars)

\* SentenceTransformer.encode of one text: a deterministic vector of fixed
\* dimension; coordinates are in units of 1/20
EncodeText(t) == <<StrLen(t) % 7, Len(t)>>

\* _embedding_model.encode(texts, convert_to_numpy=True): one row per text,
\* in the order given
Encode(texts) == [i \in 1..Len(texts) |-> EncodeText(texts[i])]

RECURSIVE SqDistFrom(_, _, _)
SqDistFrom(u, v, i) ==
    IF i > Len(u) THEN 0
    ELSE (u[i] - v[i]) * (u[i] - v[i]) + SqDistFrom(u, v, i + 1)

\* the squared L2 distance IndexFlatL2 reports, in units of 1/400
L2Sqr(u, v) == SqDistFrom(u, v, 1)

\* the distance faiss reports for a result slot it could not fill (FLT_MAX,
\* about 3.4e38; here the largest value the model's integers hold)
FLT_MAX == 2147483647

\* the label faiss reports for a result slot it could not fill
NoLabel == -1

\* the orders in which a flat index may report the k nearest of the vectors
\* labelled by rest: nearest first, equal distances in any order
RECURSIVE NearestOrders(_, _, _, _)
NearestOrders(vecs, q, rest, k) ==
    IF k = 0 \/ rest = {} THEN {<<>>}
    ELSE LET nearest == {i \in rest :
                            \A j \in rest : L2Sqr(vecs[i], q) <= L2Sqr(vecs[j], q)}
         IN  UNION {{<<i>> \o tl : tl \in NearestOrders(vecs, q, rest \ {i}, k - 1)}
                        : i \in nearest}

\* labels padded with -1 up to k entries
PadLabels(labels, k) ==
    [i \in 1..k |-> IF i <= Len(labels) THEN labels[i] ELSE NoLabel]

\* a search that reports the first k vectors in insertion order, unranked
SearchLabelsUnsorted(vecs, q, k) ==
    {PadLabels([i \in 1..(IF k < Len(vecs) THEN k ELSE Len(vecs)) |-> i - 1], k)}

\* index.search(q, k): the label rows it may return.  Labels are 0-based.
SearchLabels(vecs, q, k) ==
    {PadLabels([i \in 1..Len(o) |-> o[i] - 1], k)
        : o \in NearestOrders(vecs, q, 1..Len(vecs), k)}

\* the distance row that goes with a label row
SearchDistances(vecs, q, labels) ==
    [i \in 1..Len(labels) |->
        IF labels[i] = NoLabel THEN FLT_MAX ELSE L2Sqr(vecs[labels[i] + 1], q)]

\* the position (from 1) that list[idx] reads in a Python list: a negative
\* idx counts from the end
PyPosition(list, idx) == IF idx < 0 THEN Len(list) + idx + 1 ELSE idx + 1

\* sections[idx]
PyIndex(list, idx) == list[PyPosition(list, idx)]

\* f"{dist:.2f}": the distance in hundredths, rounded half to even
Format2f(d) ==
    LET f == d \div 4
        r == d % 4
    IN  IF r < 2 THEN f
        ELSE IF r > 2 THEN f + 1
        ELSE IF f % 2 = 0 THEN f ELSE f + 1

\* f"{dist:.2f}" as text, from the distance in hundredths
ScoreText(h) ==
    ToString(h \div 100) \o "." \o ToString((h % 100) \div 10) \o ToString(h % 10)

\* line 296: one result entry, f"[Score: {dist:.2f}]\n{sections[idx]}", kept
\* with its score (in hundredths) and its section text apart
Entry(dist, text) == [score |-> Format2f(dist), text |-> text]

\* the string line 296 appends for an entry
EntryText(e) == Concat(Lit("[Score: " \o ScoreText(e.score) \o "]\n"), e.text)

\* lines 294-296
CollectResults(dists, labels, secs) ==
    [i \in 1..Len(labels) |-> Entry(dists[i], PyIndex(secs, labels[i]))]

\* line 299
JoinResults(es) == Join(Lit("\n\n---\n\n"), [i \in 1..Len(es) |-> EntryText(es[i])])

(* ---------------------------- return values ---------------------------- *)

\* no value returned yet
NoResult == << <<"None", 0>> >>

\* line 257
NoSubsectionsMsg(gid) ==
    Concat(Concat(Lit("Info: No subsections found for guide ID "), Lit(gid)), Lit("."))

\* line 279
FaissMissingMsg ==
    Lit("Error: FAISS library is required for large-guide search but is not installed.")

\* line 303
ErrorMsg(e) == Concat(Lit("Error fetching guide: "), Lit(e))

(* ------------------------------ state ---------------------------------- *)

VARIABLES
    proc,             \* the server process: importing the module ... serving
    faiss,            \* lines 10-13: "unset", "module" or "None"
    embedding_model,  \* line 220: "unset" or the name of the loaded model
    modelLoads,       \* number of SentenceTransformer constructions so far
    pc,               \* per call: where the handler is
    guide_id,         \* per call: argument
    query,            \* per call: argument
    page,             \* per call: the parsed response
    sections,         \* per call: local of the same name
    full_text,        \* per call: local of the same name
    embeddings,       \* per call: local of the same name
    index,            \* per call: the vectors held by the call's IndexFlatL2
    q_emb,            \* per call: local of the same name
    distances,        \* per call: distances[0]
    indices,          \* per call: indices[0]
    results,          \* per call: local of the same name
    result,           \* per call: the value returned
    encodeLog,        \* per call: the batches passed to _embedding_model.encode
    indexLog          \* per call: the operations made on the faiss module

procVars == <<proc, faiss, embedding_model, modelLoads>>

callVars == <<pc, guide_id, query, page, sections, full_text, embeddings, index,
              q_emb, distances, indices, results, result, encodeLog, indexLog>>

vars == <<proc, faiss, embedding_model, modelLoads, pc, guide_id, query, page,
          sections, full_text, embeddings, index, q_emb, distances, indices,
          results, result, encodeLog, indexLog>>

Calls == 1..NumCalls

ModelName == "all-MiniLM-L6-v2"

Init ==
    /\ proc = "importing"
    /\ faiss = "unset"
    /\ embedding_model = "unset"
    /\ modelLoads = 0
    /\ pc = [c \in Calls |-> "idle"]
    /\ guide_id = [c \in Calls |-> ""]
    /\ query = [c \in Calls |-> EmptyStr]
    /\ page = [c \in Calls |-> NoPage]
    /\ sections = [c \in Calls |-> <<>>]
    /\ full_text = [c \in Calls |-> EmptyStr]
    /\ embeddings = [c \in Calls |-> <<>>]
    /\ index = [c \in Calls |-> <<>>]
    /\ q_emb = [c \in Calls |-> <<>>]
    /\ distances = [c \in Calls |-> <<>>]
    /\ indices = [c \in Calls |-> <<>>]
    /\ results = [c \in Calls |-> <<>>]
    /\ result = [c \in Calls |-> NoResult]
    /\ encodeLog = [c \in Calls |-> <<>>]
    /\ indexLog = [c \in Calls |-> <<>>]

(* ------------------------- the server process -------------------------- *)

\* lines 10-13: import faiss, or faiss = None when it is not installed
ImportFaiss ==
    /\ proc = "importing"
    /\ \E f \in {"module", "None"} : faiss' = f
    /\ proc' = "loading"
    /\ UNCHANGED <<embedding_model, modelLoads>>
    /\ UNCHANGED callVars

\* line 220, run while the module is imported: the model is constructed, or
\* the constructor raises and the import (and with it the process) fails
LoadModel ==
    /\ proc = "loading"
    /\ \/ /\ embedding_model' = ModelName
          /\ modelLoads' = modelLoads + 1
          /\ proc' = "loaded"
       \/ /\ proc' = "crashed"
          /\ UNCHANGED <<embedding_model, modelLoads>>
    /\ UNCHANGED faiss
    /\ UNCHANGED callVars

\* lines 306-310: mcp.run, from which on tool calls are served
Main ==
    /\ proc = "loaded"
    /\ proc' = "serving"
    /\ UNCHANGED <<faiss, embedding_model, modelLoads>>
    /\ UNCHANGED callVars

(* --------------------------- fetch_steam_guide -------------------------- *)

Terminal == {"FullTextReturned", "Formatted", "Failed"}

\* a model constructed by the call that needs it instead of read
UseModelLoadsIt ==
    /\ embedding_model' = ModelName
    /\ modelLoads' = modelLoads + 1

\* lines 282, 290: encode reads the module-level model and never assigns it
UseModel == UNCHANGED <<embedding_model, modelLoads>>

\* the sections embedded one encode call each
SectionBatchesOneByOne(secs) == [i \in 1..Len(secs) |-> <<secs[i]>>]

\* line 282: the batches in which the sections are passed to encode
SectionBatches(secs) == <<secs>>

\* an exception that leaves the handler: the call ends without a value
RaiseEscapes(c, e) ==
    /\ pc' = [pc EXCEPT ![c] = "Failed"]
    /\ result' = result

\* an exception answered by running the call again from the start
RaiseRetries(c, e) ==
    /\ pc' = [pc EXCEPT ![c] = "started"]
    /\ result' = result

\* the exceptions the collaborators raise
Exceptions == {"HTTPError", "encode failed", "index failed", "search failed"}

\* lines 301-303: an exception raised inside the try block is caught and
\* returned as text
Raise(c, e) ==
    /\ pc' = [pc EXCEPT ![c] = "Failed"]
    /\ result' = [result EXCEPT ![c] = ErrorMsg(e)]

\* lines 223, 236-246: the call arrives with its arguments
StartCall(c, Q) ==
    /\ proc = "serving"
    /\ pc[c] = "idle"
    /\ \E g \in GuideIds, q \in Q :
          /\ guide_id' = [guide_id EXCEPT ![c] = g]
          /\ query' = [query EXCEPT ![c] = q]
    /\ pc' = [pc EXCEPT ![c] = "started"]
    /\ UNCHANGED <<page, sections, full_text, embeddings, index, q_emb, distances,
                   indices, results, result, encodeLog, indexLog>>
    /\ UNCHANGED procVars

\* lines 249-254: the page is fetched and parsed, or the request raises
Fetch(c, P) ==
    /\ pc[c] = "started"
    /\ \/ /\ \E p \in P : page' = [page EXCEPT ![c] = p]
          /\ pc' = [pc EXCEPT ![c] = "fetched"]
          /\ UNCHANGED result
       \/ /\ Raise(c, "HTTPError")
          /\ UNCHANGED page
    /\ UNCHANGED <<guide_id, query, sections, full_text, embeddings, index, q_emb,
                   distances, indices, results, encodeLog, indexLog>>
    /\ UNCHANGED procVars

\* lines 255-269: without the container the call returns the Info message;
\* with it, the sections are extracted in document order
Extract(c) ==
    /\ pc[c] = "fetched"
    /\ IF ~page[c].container
       THEN /\ result' = [result EXCEPT ![c] = NoSubsectionsMsg(guide_id[c])]
            /\ pc' = [pc EXCEPT ![c] = "Failed"]
            /\ UNCHANGED sections
       ELSE /\ sections' = [sections EXCEPT ![c] = ExtractSections(page[c].boxes)]
            /\ pc' = [pc EXCEPT ![c] = "Extracted"]
            /\ UNCHANGED result
    /\ UNCHANGED <<guide_id, query, page, full_text, embeddings, index, q_emb,
                   distances, indices, results, encodeLog, indexLog>>
    /\ UNCHANGED procVars

\* line 271, and the length taken at line 274
SizeCheck(c) ==
    /\ pc[c] = "Extracted"
    /\ full_text' = [full_text EXCEPT ![c] = FullText(sections[c])]
    /\ pc' = [pc EXCEPT ![c] = "SizeChecked"]
    /\ UNCHANGED <<guide_id, query, page, sections, embeddings, index, q_emb,
                   distances, indices, results, result, encodeLog, indexLog>>
    /\ UNCHANGED procVars

\* lines 274-275
ReturnFullText(c) ==
    /\ pc[c] = "SizeChecked"
    /\ ~SearchMode(full_text[c])
    /\ result' = [result EXCEPT ![c] = full_text[c]]
    /\ pc' = [pc EXCEPT ![c] = "FullTextReturned"]
    /\ UNCHANGED <<guide_id, query, page, sections, full_text, embeddings, index,
                   q_emb, distances, indices, results, encodeLog, indexLog>>
    /\ UNCHANGED procVars

\* a missing backend answered by silently returning the whole text
FaissMissingFallsBack(c) ==
    /\ pc[c] = "SizeChecked"
    /\ SearchMode(full_text[c])
    /\ faiss = "None"
    /\ result' = [result EXCEPT ![c] = full_text[c]]
    /\ pc' = [pc EXCEPT ![c] = "Failed"]
    /\ UNCHANGED <<guide_id, query, page, sections, full_text, embeddings, index,
                   q_emb, distances, indices, results, encodeLog, indexLog>>
    /\ UNCHANGED procVars

\* lines 278-279
FaissMissing(c) ==
    /\ pc[c] = "SizeChecked"
    /\ SearchMode(full_text[c])
    /\ faiss = "None"
    /\ result' = [result EXCEPT ![c] = FaissMissingMsg]
    /\ pc' = [pc EXCEPT ![c] = "Failed"]
    /\ UNCHANGED <<guide_id, query, page, sections, full_text, embeddings, index,
                   q_emb, distances, indices, results, encodeLog, indexLog>>
    /\ UNCHANGED procVars

\* line 282: all sections are embedded in one batch, or encode raises
EncodeSections(c) ==
    /\ pc[c] = "SizeChecked"
    /\ SearchMode(full_text[c])
    /\ faiss # "None"
    /\ encodeLog' = [encodeLog EXCEPT ![c] = @ \o SectionBatches(sections[c])]
    /\ \/ /\ embeddings' = [embeddings EXCEPT ![c] = Encode(sections[c])]
          /\ pc' = [pc EXCEPT ![c] = "Embedding"]
          /\ UNCHANGED result
       \/ /\ Raise(c, "encode failed")
          /\ UNCHANGED embeddings
    /\ UNCHANGED <<guide_id, query, page, sections, full_text, index, q_emb,
                   distances, indices, results, indexLog>>
    /\ UseModel
    /\ UNCHANGED <<proc, faiss>>

\* one index kept for the whole process: every call's embeddings are added
\* to the index all calls search
BuildIndexShared(c) ==
    /\ pc[c] = "Embedding"
    /\ index' = [d \in Calls |-> index[d] \o embeddings[c]]
    /\ indexLog' = [indexLog EXCEPT ![c] = Append(@, "add")]
    /\ pc' = [pc EXCEPT ![c] = "Indexed"]
    /\ UNCHANGED <<guide_id, query, page, sections, full_text, embeddings, q_emb,
                   distances, indices, results, result, encodeLog>>
    /\ UNCHANGED procVars

\* lines 285-287: a flat L2 index is built and the embeddings are added to
\* it in order, or faiss raises
BuildIndex(c) ==
    /\ pc[c] = "Embedding"
    /\ \/ /\ index' = [index EXCEPT ![c] = embeddings[c]]
          /\ indexLog' = [indexLog EXCEPT ![c] = @ \o <<"IndexFlatL2", "add">>]
          /\ pc' = [pc EXCEPT ![c] = "Indexed"]
          /\ UNCHANGED result
       \/ /\ indexLog' = [indexLog EXCEPT ![c] = Append(@, "IndexFlatL2")]
          /\ Raise(c, "index failed")
          /\ UNCHANGED index
    /\ UNCHANGED <<guide_id, query, page, sections, full_text, embeddings, q_emb,
                   distances, indices, results, encodeLog>>
    /\ UNCHANGED procVars

\* line 290: the query is embedded alone, or encode raises
EncodeQuery(c) ==
    /\ pc[c] = "Indexed"
    /\ encodeLog' = [encodeLog EXCEPT ![c] = Append(@, <<query[c]>>)]
    /\ \/ /\ q_emb' = [q_emb EXCEPT ![c] = Encode(<<query[c]>>)[1]]
          /\ pc' = [pc EXCEPT ![c] = "QueryEmbedded"]
          /\ UNCHANGED result
       \/ /\ Raise(c, "encode failed")
          /\ UNCHANGED q_emb
    /\ UNCHANGED <<guide_id, query, page, sections, full_text, embeddings, index,
                   distances, indices, results, indexLog>>
    /\ UseModel
    /\ UNCHANGED <<proc, faiss>>

\* line 291: the top_k nearest neighbours are asked of the index
Search(c) ==
    /\ pc[c] = "QueryEmbedded"
    /\ indexLog' = [indexLog EXCEPT ![c] = Append(@, "search")]
    /\ \/ /\ \E labels \in SearchLabels(index[c], q_emb[c], top_k) :
                /\ indices' = [indices EXCEPT ![c] = labels]
                /\ distances' = [distances EXCEPT ![c] =
                                    SearchDistances(index[c], q_emb[c], labels)]
          /\ pc' = [pc EXCEPT ![c] = "Queried"]
          /\ UNCHANGED result
       \/ /\ Raise(c, "search failed")
          /\ UNCHANGED <<indices, distances>>
    /\ UNCHANGED <<guide_id, query, page, sections, full_text, embeddings, index,
                   q_emb, results, encodeLog>>
    /\ UNCHANGED procVars

\* lines 294-296
Rank(c) ==
    /\ pc[c] = "Queried"
    /\ results' = [results EXCEPT ![c] =
                      CollectResults(distances[c], indices[c], sections[c])]
    /\ pc' = [pc EXCEPT ![c] = "Ranked"]
    /\ UNCHANGED <<guide_id, query, page, sections, full_text, embeddings, index,
                   q_emb, distances, indices, result, encodeLog, indexLog>>
    /\ UNCHANGED procVars

\* line 299
Format(c) ==
    /\ pc[c] = "Ranked"
    /\ result' = [result EXCEPT ![c] = JoinResults(results[c])]
    /\ pc' = [pc EXCEPT ![c] = "Formatted"]
    /\ UNCHANGED <<guide_id, query, page, sections, full_text, embeddings, index,
                   q_emb, distances, indices, results, encodeLog, indexLog>>
    /\ UNCHANGED procVars

\* the value has been handed to the transport layer: the call's locals are
\* gone and the slot takes the next call
Return(c) ==
    /\ pc[c] \in Terminal
    /\ pc' = [pc EXCEPT ![c] = "idle"]
    /\ guide_id' = [guide_id EXCEPT ![c] = ""]
    /\ query' = [query EXCEPT ![c] = EmptyStr]
    /\ page' = [page EXCEPT ![c] = NoPage]
    /\ sections' = [sections EXCEPT ![c] = <<>>]
    /\ full_text' = [full_text EXCEPT ![c] = EmptyStr]
    /\ embeddings' = [embeddings EXCEPT ![c] = <<>>]
    /\ index' = [index EXCEPT ![c] = <<>>]
    /\ q_emb' = [q_emb EXCEPT ![c] = <<>>]
    /\ distances' = [distances EXCEPT ![c] = <<>>]
    /\ indices' = [indices EXCEPT ![c] = <<>>]
    /\ results' = [results EXCEPT ![c] = <<>>]
    /\ result' = [result EXCEPT ![c] = NoResult]
    /\ encodeLog' = [encodeLog EXCEPT ![c] = <<>>]
    /\ indexLog' = [indexLog EXCEPT ![c] = <<>>]
    /\ UNCHANGED procVars

(* --------------------------- specifications ---------------------------- *)

\* the pages served in the concurrent specification
ConcPages ==
    {Page(FALSE, <<>>),
     Page(TRUE, <<>>),
     Page(TRUE, <<BoxTitled, BoxTitled>>),
     Page(TRUE, <<BoxHuge>>),
     Page(TRUE, <<BoxBare, BoxHuge>>)}

\* the pages served in the serial specification
AllPages == Pages(MaxSections) \cup ConcPages

ConcQueries == {Lit("boss strategy")}

\* one handler slot: the transport runs one tool call at a time
SerialCalls == {1}

Next ==
    \/ ImportFaiss
    \/ LoadModel
    \/ Main
    \/ \E c \in SerialCalls :
          \/ StartCall(c, Queries)
          \/ Fetch(c, AllPages)
          \/ Extract(c)
          \/ SizeCheck(c)
          \/ ReturnFullText(c)
          \/ FaissMissing(c)
          \/ EncodeSections(c)
          \/ BuildIndex(c)
          \/ EncodeQuery(c)
          \/ Search(c)
          \/ Rank(c)
          \/ Format(c)
          \/ Return(c)

Spec == Init /\ [][Next]_vars

ConcNext ==
    \/ ImportFaiss
    \/ LoadModel
    \/ Main
    \/ \E c \in Calls :
          \/ StartCall(c, ConcQueries)
          \/ Fetch(c, ConcPages)
          \/ Extract(c)
          \/ SizeCheck(c)
          \/ ReturnFullText(c)
          \/ FaissMissing(c)
          \/ EncodeSections(c)
          \/ BuildIndex(c)
          \/ EncodeQuery(c)
          \/ Search(c)
          \/ Rank(c)
          \/ Format(c)
          \/ Return(c)

ConcSpec == Init /\ [][ConcNext]_vars

TypeOK ==
    /\ proc \in {"importing", "loading", "loaded", "serving", "crashed"}
    /\ faiss \in {"unset", "module", "None"}
    /\ modelLoads \in 0..1

(* ------------------------------- claims -------------------------------- *)

Min(a, b) == IF a < b THEN a ELSE b

\* the call has extracted the sections of its page
Extracted(c) == pc[c] \notin {"idle", "started", "fetched"} /\ page[c].container

\* the concatenated text of the document the call was served
DocText(c) == FullText(ExtractSections(page[c].boxes))

C2_ClampedNoDuplicates ==
    \A c \in Calls :
        pc[c] \in {"Ranked", "Formatted"} =>
            /\ Len(results[c]) = Min(top_k, Len(sections[c]))
            /\ \A i, j \in 1..Len(results[c]) :
                  i # j => PyPosition(sections[c], indices[c][i])
                             # PyPosition(sections[c], indices[c][j])

\* C3: in search mode with faiss = None the call returns the FAISS-missing
\* message: not the full text, not the empty string, and nothing is embedded.
C3_BackendUnavailable ==
    \A c \in Calls :
        (pc[c] \in Terminal /\ SearchMode(full_text[c]) /\ faiss = "None") =>
            /\ result[c] = FaissMissingMsg
            /\ result[c] # full_text[c]
            /\ result[c] # EmptyStr
            /\ encodeLog[c] = <<>>

\* C3 witness: a call on an oversized guide has ended without the backend.
C3_Witness ==
    \E c \in Calls :
        /\ pc[c] = "Failed"
        /\ faiss = "None"
        /\ sections[c] # <<>>
        /\ SearchMode(full_text[c])
        /\ result[c] = FaissMissingMsg

\* C4: a call on a document with zero sections (container absent, or present
\* without boxes) returns the 'no sections found' message, which differs from
\* the backend-unavailable message, and never the empty string.
C4_EmptyDocument ==
    \A c \in Calls :
        (pc[c] \in Terminal /\ page[c].fetched /\ page[c].boxes = <<>>) =>
            /\ result[c] = NoSubsectionsMsg(guide_id[c])
            /\ result[c] # FaissMissingMsg
            /\ result[c] # EmptyStr

\* C5: the entries of a search result are in non-decreasing order of Score,
\* and the returned text is those entries in that order.
C5_AscendingScores ==
    \A c \in Calls :
        /\ pc[c] \in {"Ranked", "Formatted"} =>
              \A i \in 1..(Len(results[c]) - 1) :
                  results[c][i].score <= results[c][i + 1].score
        /\ pc[c] = "Formatted" => result[c] = JoinResults(results[c])

\* C5 witness: a formatted result over more than top_k sections whose first
\* and last entries carry different scores.
C5_Witness ==
    \E c \in Calls :
        /\ pc[c] = "Formatted"
        /\ Len(sections[c]) > top_k
        /\ results[c][1].score < results[c][Len(results[c])].score
        /\ results[c][1].text # sections[c][1]

\* C6: every failure of a call ends it with a descriptive text as its value
\* (no exception leaves the handler), the process keeps serving, and the
\* slot can return and take the next call.
C6_FailuresReturnedAsText ==
    \A c \in Calls :
        /\ pc[c] # "idle" => proc = "serving"
        /\ pc[c] = "Failed" =>
              /\ result[c] \in {NoSubsectionsMsg(guide_id[c]), FaissMissingMsg}
                                  \cup {ErrorMsg(e) : e \in Exceptions}
              /\ result[c] # EmptyStr
              /\ ENABLED Return(c)
        /\ (pc[c] = "idle" /\ proc = "serving") => ENABLED StartCall(c, Queries)

\* C6 witness: the query embedding raised after the index was built, and the
\* call ended with the error text.
C6_Witness ==
    \E c \in Calls :
        /\ pc[c] = "Failed"
        /\ index[c] # <<>>
        /\ Len(encodeLog[c]) = 2
        /\ result[c] = ErrorMsg("encode failed")

\* C7: under any interleaving of calls the embedding model is constructed
\* exactly once per process, and while calls are served it stays the model
\* that was constructed.
C7_ModelLoadedOnce ==
    /\ modelLoads <= 1
    /\ proc \in {"loaded", "serving"} =>
          /\ modelLoads = 1
          /\ embedding_model = ModelName
    /\ \A c \in Calls : pc[c] # "idle" => modelLoads = 1

\* C7 witness: two calls have both embedded their sections and neither has
\* returned.
C7_Witness ==
    \E c, d \in Calls :
        /\ c # d
        /\ pc[c] = "Embedding"
        /\ pc[d] = "Embedding"
        /\ modelLoads = 1

\* C8: the model is loaded lazily: only by a call entering search mode, so
\* never in a process whose calls all take the full-text path, and a load
\* failure never stops the process from starting.
C8_LazyLoad ==
    [][/\ (embedding_model = "unset" /\ embedding_model' # "unset") =>
              \E c \in Calls : pc[c] = "SizeChecked" /\ pc'[c] \in {"Embedding", "Failed"}
       /\ proc' # "crashed"]_vars

\* C9: a search call passes the embedding model exactly two batches: all the
\* sections, in document order, then the query alone.
C9_TwoEncodeCalls ==
    \A c \in Calls :
        /\ encodeLog[c] # <<>> => sections[c] = ExtractSections(page[c].boxes)
        /\ Len(encodeLog[c]) <= 2
        /\ \A i \in 1..Len(encodeLog[c]) :
              encodeLog[c][i] = <<sections[c], <<query[c]>>>>[i]
        /\ pc[c] \in {"Embedding", "Indexed"} => Len(encodeLog[c]) = 1
        /\ pc[c] \in {"QueryEmbedded", "Queried", "Ranked", "Formatted"} =>
              encodeLog[c] = <<sections[c], <<query[c]>>>>

\* C9 witness: a formatted search over three sections after exactly the two
\* batches.
C9_Witness ==
    \E c \in Calls :
        /\ pc[c] = "Formatted"
        /\ Len(sections[c]) = 3
        /\ encodeLog[c] = <<sections[c], <<query[c]>>>>

\* the stage of the retrieval pipeline a handler position belongs to
Stage(l) ==
    CASE l \in {"started", "fetched"} -> "Start"
      [] l = "QueryEmbedded" -> "Indexed"
      [] OTHER -> l

PipelineEdges ==
    {<<"idle", "Start">>, <<"Start", "Extracted">>, <<"Start", "Failed">>,
     <<"Extracted", "SizeChecked">>,
     <<"SizeChecked", "FullTextReturned">>, <<"SizeChecked", "Embedding">>,
     <<"SizeChecked", "Failed">>,
     <<"Embedding", "Indexed">>, <<"Embedding", "Failed">>,
     <<"Indexed", "Queried">>, <<"Indexed", "Failed">>,
     <<"Queried", "Ranked">>, <<"Ranked", "Formatted">>,
     <<"FullTextReturned", "idle">>, <<"Formatted", "idle">>, <<"Failed", "idle">>}

\* the handler of call c has a next step at each position before the end
CanAdvance(c) ==
    /\ pc[c] = "started" => ENABLED Fetch(c, AllPages)
    /\ pc[c] = "fetched" => ENABLED Extract(c)
    /\ pc[c] = "Extracted" => ENABLED SizeCheck(c)
    /\ pc[c] = "SizeChecked" =>
          \/ ENABLED ReturnFullText(c)
          \/ ENABLED FaissMissing(c)
          \/ ENABLED EncodeSections(c)
    /\ pc[c] = "Embedding" => ENABLED BuildIndex(c)
    /\ pc[c] = "Indexed" => ENABLED EncodeQuery(c)
    /\ pc[c] = "QueryEmbedded" => ENABLED Search(c)
    /\ pc[c] = "Queried" => ENABLED Rank(c)
    /\ pc[c] = "Ranked" => ENABLED Format(c)
    /\ pc[c] \in Terminal => ENABLED Return(c)

\* C10: a call walks Extracted, SizeChecked, then FullTextReturned or
\* Embedding, Indexed, Queried, Ranked, Formatted, in that order, entering no
\* stage twice and skipping none; Failed is entered only from a non-terminal
\* stage; and a call that has started and not ended always has a next step,
\* so that, every step moving it forward, it ends in one terminal stage.
C10_Pipeline ==
    /\ [][\A c \in Calls :
             Stage(pc'[c]) # Stage(pc[c]) =>
                 <<Stage(pc[c]), Stage(pc'[c])>> \in PipelineEdges]_vars
    /\ [](\A c \in Calls : CanAdvance(c))

\* C10 witness: a call has walked the whole search path.
C10_Witness ==
    \E c \in Calls :
        /\ pc[c] = "Formatted"
        /\ indexLog[c] = <<"IndexFlatL2", "add", "search">>
        /\ Len(results[c]) = top_k
        /\ result[c] = JoinResults(results[c])

\* everything call c holds
LocalsOf(c) ==
    <<pc[c], guide_id[c], query[c], page[c], sections[c], full_text[c],
      embeddings[c], index[c], q_emb[c], distances[c], indices[c], results[c],
      result[c], encodeLog[c], indexLog[c]>>

\* the sections of the document call c was served
DocSections(c) == ExtractSections(page[c].boxes)

\* C11: calls share no index state: the index of a call holds the embeddings
\* of that call's document only, every section a call returns is a section of
\* its own document, a call starts with nothing left by an earlier one, a
\* step of one call changes nothing another call holds, and a call that
\* fails changes nothing outside itself.
C11_CallsIsolated ==
    /\ [](\A c \in Calls :
             /\ index[c] \in {<<>>, Encode(DocSections(c))}
             /\ pc[c] \in {"Indexed", "QueryEmbedded", "Queried", "Ranked", "Formatted"}
                   => index[c] = Encode(DocSections(c))
             /\ \A i \in 1..Len(results[c]) :
                   \E j \in 1..Len(DocSections(c)) :
                       results[c][i].text = DocSections(c)[j]
             /\ pc[c] \in {"idle", "started"} =>
                   /\ sections[c] = <<>> /\ embeddings[c] = <<>>
                   /\ index[c] = <<>> /\ results[c] = <<>>
                   /\ result[c] = NoResult)
    /\ [][\A c \in Calls :
             LocalsOf(c)' # LocalsOf(c) =>
                 /\ \A d \in Calls \ {c} : LocalsOf(d)' = LocalsOf(d)
                 /\ pc'[c] = "Failed" => UNCHANGED procVars]_vars

\* C11 witness: two calls served different guides hold their search results
\* at the same time, each over its own index.
C11_Witness ==
    \E c, d \in Calls :
        /\ c # d
        /\ page[c] # page[d]
        /\ pc[c] = "Formatted"
        /\ pc[d] \in {"Ranked", "Formatted"}
        /\ index[c] # index[d]

\* C12: in search mode the index holds one vector per section, and every
\* label the search yields is used as 0 <= i < section_count and looks up
\* section i of the document in extraction order.
C12_IndexMapsToSection ==
    \A c \in Calls :
        /\ pc[c] \in {"Indexed", "QueryEmbedded", "Queried", "Ranked", "Formatted"} =>
              /\ Len(index[c]) = Len(sections[c])
              /\ sections[c] = DocSections(c)
        /\ pc[c] \in {"Queried", "Ranked", "Formatted"} =>
              \A i \in 1..Len(indices[c]) :
                  /\ 0 <= indices[c][i]
                  /\ indices[c][i] < Len(sections[c])
        /\ pc[c] \in {"Ranked", "Formatted"} =>
              \A i \in 1..Len(results[c]) :
                  /\ 0 <= indices[c][i]
                  /\ indices[c][i] < Len(sections[c])
                  /\ results[c][i].text = DocSections(c)[indices[c][i] + 1]

====
